---- MODULE Spec2Model ----
(***************************************************************************)
(* NationalrailSensor (custom_components/nationalrailtimes/sensor.py).     *)
(*                                                                         *)
(* One sensor instance, polled by the host: async_update fetches a result  *)
(* from the Api collaborator and folds it into the sensor's fields;        *)
(* extra_state_attributes projects the fields into an attribute mapping.   *)
(*                                                                         *)
(* Python values are encoded as follows.                                   *)
(*   str        a TLA+ string                                              *)
(*   dict       a function whose DOMAIN is the set of keys present         *)
(*   list       a sequence                                                 *)
(*   None/str   (the _state field only) <<>> for None, <<s>> for the str s *)
(* An exception is the name of its class; NoExc means none was raised.     *)
(***************************************************************************)
EXTENDS Integers, Sequences, FiniteSets, TLC

VARIABLES
    self,        \* the sensor's fields (sensor.py:115-128)
    outcome,     \* how the most recent async_update call ended
    attributes   \* what extra_state_attributes last gave the host since then

vars == <<self, outcome, attributes>>

-----------------------------------------------------------------------------
(* Bounds *)

\* Longest list of services that follow the primary one in a fetch result.
MaxOthers == 1

-----------------------------------------------------------------------------
(* Python helpers *)

NoExc == "none"

None == <<>>

EmptyDict == [k \in {} |-> ""]

\* dict.get(key, default)
Get(d, key, default) == IF key \in DOMAIN d THEN d[key] ELSE default

\* the dict left by d.pop(key) when key is present
Pop(d, key) == [k \in DOMAIN d \ {key} |-> d[k]]

\* list[1:]
Rest(list) == SubSeq(list, 2, Len(list))

\* All sequences over S of length 0..n
RECURSIVE SeqsUpTo(_, _)
SeqsUpTo(S, n) ==
    IF n = 0 THEN {<<>>}
    ELSE LET shorter == SeqsUpTo(S, n - 1)
         IN  shorter \cup {Append(q, x) : q \in {r \in shorter : Len(r) = n - 1}, x \in S}

-----------------------------------------------------------------------------
(* Display state literals, sensor.py:160-170 *)

MSG_NO_REPLY == "There was no reply from National Rail Trains for this service"

MSG_INTERNAL_ERROR == "There was an internal error for this service"

MSG_CANNOT_INTERPRET == "Cannot interpret XML for this service from National Rail"

Messages == {MSG_NO_REPLY, MSG_INTERNAL_ERROR, MSG_CANNOT_INTERPRET}

-----------------------------------------------------------------------------
(* dateutil.parser.parse(...).strftime("%H:%M"), sensor.py:183 *)

Digit == <<"0", "1", "2", "3", "4", "5", "6", "7", "8", "9">>

\* %H and %M: two digits, zero padded
Pad2(n) == Digit[(n \div 10) + 1] \o Digit[(n % 10) + 1]

\* the unpadded rendering that parse also accepts for the hour ("9:07")
Unpadded(n) == IF n < 10 THEN Digit[n + 1] ELSE Pad2(n)

Hours == 0 .. 23

Minutes == 0 .. 59

ParseFailure == <<>>

\* The time-of-day texts parse reads, each with its reading <<hour, minute>>:
\* "HH:MM", and "H:MM" for an hour below ten.
ClockReadings ==
    {<<Pad2(h) \o ":" \o Pad2(m), <<h, m>>>> : h \in Hours, m \in Minutes}
        \cup {<<Unpadded(h) \o ":" \o Pad2(m), <<h, m>>>> : h \in Hours, m \in Minutes}

ClockTexts == {r[1] : r \in ClockReadings}

ParseTable == [s \in ClockTexts |-> (CHOOSE r \in ClockReadings : r[1] = s)[2]]

\* parser.parse on a time-of-day string: <<hour, minute>>, or ParseFailure
\* where dateutil raises ParserError ("Delayed", "Cancelled", "On time", ...).
parser_parse(s) == IF s \in ClockTexts THEN ParseTable[s] ELSE ParseFailure

\* strftime with "%-H:%-M" in place of "%H:%M": no zero padding
strftime_unpadded(t) == Unpadded(t[1]) \o ":" \o Unpadded(t[2])

\* .strftime("%H:%M")
strftime(t) == Pad2(t[1]) \o ":" \o Pad2(t[2])

-----------------------------------------------------------------------------
(* The sensor's identity and the static station table *)

\* station_codes.STATIONS, as far as the sensor consults it
STATIONS == [KGX |-> "London Kings Cross"]

Station == "PAD"

Destinations == {"KGX", "ZZZ"}

TimeOffset == "5"

-----------------------------------------------------------------------------
(* What Api.api_request can hand back, sensor.py:157 *)

CallingPointsFast ==
    [callingPoint |-> << [locationName |-> "Stevenage", st |-> "10:40"],
                         [st |-> "10:58"],
                         [locationName |-> "Peterborough", st |-> "11:05"] >>]

CallingPointsSplit ==
    [callingPoint |-> << [locationName |-> "Cambridge", st |-> "11:10"] >>]

\* Services a result can list first (the primary service).
PrimaryServices ==
    { [etd |-> "On time", std |-> "10:15", platform |-> "4",
       subsequentCallingPoints |-> <<CallingPointsFast, CallingPointsSplit>>],
      [etd |-> "09:07", std |-> "09:05", platform |-> "2",
       subsequentCallingPoints |-> <<CallingPointsSplit>>],
      [std |-> "12:00", platform |-> "1",
       subsequentCallingPoints |-> <<CallingPointsFast>>],
      [etd |-> "Delayed", std |-> "11:30", platform |-> "3",
       subsequentCallingPoints |-> <<CallingPointsFast>>],
      [etd |-> "On time", std |-> "23:59", platform |-> "5"] }

\* Services a result can list after the first.
OtherServices ==
    { [etd |-> "On time", std |-> "10:45", platform |-> "7"],
      [etd |-> "Cancelled", std |-> "11:00", platform |-> "8"] }

ServiceLists ==
    {<<>>} \cup {<<p>> \o q : p \in PrimaryServices, q \in SeqsUpTo(OtherServices, MaxOthers)}

\* The fields of a result beside its service list.
Headers ==
    { [generatedAt |-> "2026-11-05T10:00:00", locationName |-> "London Paddington",
       filterLocationName |-> "London Kings Cross", nrccMessages |-> "Engineering works"],
      [locationName |-> "Paddington", filterLocationName |-> "Kings Cross"] }

\* The result mappings: a header and a trainServices list.
Results == {h @@ [trainServices |-> l] : h \in Headers, l \in ServiceLists}

\* Every way the awaited api_request can end: a falsy value (None, {}), an OSError,
\* any other Exception, or a result mapping.
Fetches ==
    {[kind |-> "falsy"], [kind |-> "OSError"], [kind |-> "Exception"]}
        \cup {[kind |-> "result", result |-> r] : r \in Results}

-----------------------------------------------------------------------------
(* NationalrailSensor *)

\* __init__, sensor.py:113-128
__init__(station, destination, time_offset) ==
    [ time_offset      |-> time_offset,
      destination      |-> destination,
      station          |-> station,
      _state           |-> None,
      station_name     |-> station,
      destination_name |-> destination,
      last_data        |-> EmptyDict,
      service_data     |-> EmptyDict ]

\* A call of async_update that ends at `exit` with the sensor left as s.
Ended(s, exit) == [self |-> s, exit |-> exit]

\* sensor.py:177-181: the text of the next train's time, or the KeyError of a
\* subscript on a missing key.
next_train_time(service_data) ==
    IF Get(service_data, "etd", "On Time") # "On time"
    THEN IF "etd" \in DOMAIN service_data
         THEN [raised |-> NoExc, text |-> service_data["etd"]]
         ELSE [raised |-> "KeyError", text |-> ""]
    ELSE IF "std" \in DOMAIN service_data
         THEN [raised |-> NoExc, text |-> service_data["std"]]
         ELSE [raised |-> "KeyError", text |-> ""]

\* sensor.py:173-174
assign_names(s, result) ==
    IF "locationName" \notin DOMAIN result THEN Ended(s, "KeyError")
    ELSE LET s1 == [s EXCEPT !.station_name = result["locationName"]]
         IN  IF "filterLocationName" \notin DOMAIN result THEN Ended(s1, "KeyError")
             ELSE Ended([s1 EXCEPT !.destination_name = result["filterLocationName"]], NoExc)

\* sensor.py:175-184
assign_service(s, result) ==
    IF "trainServices" \notin DOMAIN result THEN Ended(s, "TypeError")
    ELSE IF result["trainServices"] = <<>> THEN Ended(s, "IndexError")
    ELSE LET s1   == [s EXCEPT !.service_data = result["trainServices"][1]]
             next == next_train_time(s1.service_data)
             time == parser_parse(next.text)
         IN  IF next.raised # NoExc THEN Ended(s1, next.raised)
             ELSE IF time = ParseFailure THEN Ended(s1, "ParserError")
             ELSE Ended([s1 EXCEPT !._state = <<strftime(time)>>, !.last_data = result],
                        "updated")

\* after_fetch with the service list indexed before the names are assigned
after_fetch_indexing_first(s, result) ==
    IF "trainServices" \in DOMAIN result /\ result["trainServices"] = <<>>
    THEN Ended(s, "IndexError")
    ELSE LET named == assign_names(s, result)
         IN  IF named.exit # NoExc THEN named ELSE assign_service(named.self, result)

\* sensor.py:173-184: the statements after the try block, in order
after_fetch(s, result) ==
    LET named == assign_names(s, result)
    IN  IF named.exit # NoExc THEN named ELSE assign_service(named.self, result)

\* async_update with the stale snapshot dropped when there is no reply
async_update_dropping_stale(s, fetch) ==
    CASE fetch.kind = "falsy"     ->
            Ended([s EXCEPT !._state = <<MSG_NO_REPLY>>,
                            !.last_data = EmptyDict, !.service_data = EmptyDict], "no_reply")
      [] fetch.kind = "OSError"   -> Ended([s EXCEPT !._state = <<MSG_INTERNAL_ERROR>>], "os_error")
      [] fetch.kind = "Exception" -> Ended([s EXCEPT !._state = <<MSG_CANNOT_INTERPRET>>], "exception")
      [] fetch.kind = "result"    -> after_fetch(s, fetch.result)

\* async_update, sensor.py:151-184, when api_request ends as `fetch`
async_update(s, fetch) ==
    CASE fetch.kind = "falsy"     -> Ended([s EXCEPT !._state = <<MSG_NO_REPLY>>], "no_reply")
      [] fetch.kind = "OSError"   -> Ended([s EXCEPT !._state = <<MSG_INTERNAL_ERROR>>], "os_error")
      [] fetch.kind = "Exception" -> Ended([s EXCEPT !._state = <<MSG_CANNOT_INTERPRET>>], "exception")
      [] fetch.kind = "result"    -> after_fetch(s, fetch.result)

\* A call of extra_state_attributes that raises `exc`, or returns `value`.
Gave(exc, value) == [status |-> exc, value |-> value]

\* sensor.py:203-208
calling_points(service_data) ==
    LET groups == Get(service_data, "subsequentCallingPoints", <<EmptyDict>>)
        points == Get(groups[1], "callingPoint", <<>>)
    IN  [i \in 1 .. Len(points) |-> Get(points[i], "locationName", "")]

\* sensor.py:198-214: the mapping built when last_data is not empty
full_attributes(s, service_dict) ==
    LET data == s.last_data
        always == [ last_refresh     |-> Get(data, "generatedAt", ""),
                    message          |-> Get(data, "nrccMessages", ""),
                    station_name     |-> data["locationName"],
                    destination_name |-> data["filterLocationName"],
                    service          |-> service_dict,
                    services         |-> Rest(data["trainServices"]),
                    calling_points   |-> calling_points(s.service_data),
                    offset           |-> s.time_offset,
                    station_code     |-> s.station ]
    IN  IF s.destination \in DOMAIN STATIONS
        THEN always @@ [ target_station_name |-> STATIONS[s.destination],
                         target_station_code |-> s.destination ]
        ELSE always

\* extra_state_attributes, sensor.py:186-216
extra_state_attributes(s) ==
    IF "subsequentCallingPoints" \notin DOMAIN s.service_data
    THEN Gave("KeyError", EmptyDict)
    ELSE IF DOMAIN s.last_data = {}
    THEN Gave("returned", [last_refresh |-> Get(s.last_data, "generatedAt", "")])
    ELSE IF s.service_data["subsequentCallingPoints"] = <<>>
    THEN Gave("IndexError", EmptyDict)
    ELSE Gave("returned",
              full_attributes(s, Pop(s.service_data, "subsequentCallingPoints")))

-----------------------------------------------------------------------------
(* The state machine *)

Unread == [status |-> "unread", value |-> EmptyDict]

Init ==
    /\ \E destination \in Destinations : self = __init__(Station, destination, TimeOffset)
    /\ outcome = "constructed"
    /\ attributes = Unread

\* The host's scheduling tick: one async_update call, run to its end.  What the
\* host read before the call is forgotten.
AsyncUpdate(fetch) ==
    LET end == async_update(self, fetch)
    IN  /\ self' = end.self
        /\ outcome' = end.exit
        /\ attributes' = Unread

\* The host reads the extra_state_attributes property.
ExtraStateAttributes ==
    /\ attributes' = extra_state_attributes(self)
    /\ UNCHANGED <<self, outcome>>

Next ==
    \/ \E fetch \in Fetches : AsyncUpdate(fetch)
    \/ ExtraStateAttributes

Spec == Init /\ [][Next]_vars

-----------------------------------------------------------------------------
(* Vocabulary of the properties *)

\* The ways async_update returns to the host without raising.
Returns == {"no_reply", "os_error", "exception", "updated"}

\* The fetch failure kinds, each with the display state it is turned into.
FailureMessage ==
    [falsy |-> MSG_NO_REPLY, OSError |-> MSG_INTERNAL_ERROR, Exception |-> MSG_CANNOT_INTERPRET]

FailedFetches == {f \in Fetches : f.kind # "result"}

\* Fetches that return a result listing at least one service.
ListingFetches ==
    {f \in Fetches : /\ f.kind = "result"
                      /\ "trainServices" \in DOMAIN f.result
                      /\ f.result["trainServices"] # <<>>}

\* Fetches that return a result whose service list is empty.
EmptyListFetches ==
    {f \in Fetches : /\ f.kind = "result"
                      /\ "trainServices" \in DOMAIN f.result
                      /\ f.result["trainServices"] = <<>>}

Primary(fetch) == fetch.result["trainServices"][1]

\* A service whose times are all readable: a scheduled time of day, and an
\* estimate that is absent, "On time" or a time of day.
Readable(service) ==
    /\ "std" \in DOMAIN service
    /\ service["std"] \in ClockTexts
    /\ "etd" \in DOMAIN service => service["etd"] \in ClockTexts \cup {"On time"}

\* The time-of-day texts a service carries as its std and etd.
ServiceTimes(service) ==
    {service[k] : k \in DOMAIN service \cap {"std", "etd"}} \cap ClockTexts

\* every str of the form HH:MM (two digits, a colon, two digits)
HHMM ==
    {Digit[a] \o Digit[b] \o ":" \o Digit[c] \o Digit[d] :
        a \in 1 .. 10, b \in 1 .. 10, c \in 1 .. 10, d \in 1 .. 10}

\* HH:MM for a time-of-day text
Shown(text) == <<strftime(parser_parse(text))>>

IsDisplayString(state) == state # None /\ state[1] \in HHMM \cup Messages

-----------------------------------------------------------------------------
(* C1 *)

\* C1: async_update never raises to the host: whatever the fetch gave, the call
\* returns normally.
C1_NeverRaises == outcome \in Returns \cup {"constructed"}

-----------------------------------------------------------------------------
(* C2 *)

\* C2: an async_update whose fetch fails (falsy result, OSError, other exception)
\* leaves last_data and service_data as they were and sets the display state to
\* that kind's fixed message, from any prior state.
C2_FailureKeepsSnapshot ==
    [][\A fetch \in FailedFetches :
          AsyncUpdate(fetch) =>
              /\ self'.last_data = self.last_data
              /\ self'.service_data = self.service_data
              /\ self'._state = <<FailureMessage[fetch.kind]>>]_vars

\* A transport failure after an earlier successful refresh: the snapshot is kept.
C2_Witness ==
    /\ outcome = "os_error"
    /\ self._state = <<MSG_INTERNAL_ERROR>>
    /\ DOMAIN self.last_data # {}
    /\ self.service_data = self.last_data["trainServices"][1]

-----------------------------------------------------------------------------
(* C3 *)

\* C3: on a sensor with no successful fetch yet, extra_state_attributes returns
\* exactly {last_refresh: ""}.
C3_MinimalAttributes ==
    (attributes.status # "unread" /\ DOMAIN self.last_data = {})
        => attributes = Gave("returned", [last_refresh |-> ""])

-----------------------------------------------------------------------------
(* C4 *)

\* C4 as stated: in every reachable state, construction included, the display
\* state is an HH:MM time or one of the three messages, never None.
C4_AlwaysDisplayString == IsDisplayString(self._state)

\* C4 amended: the display state is None from construction until the first
\* async_update that returns normally, and from then on it is always an HH:MM
\* time or one of the three messages.
C4_DisplayStringOnceReturned ==
    /\ [](self._state = None \/ IsDisplayString(self._state))
    /\ [](outcome \in Returns => self._state # None)
    /\ [][/\ self._state # None => self'._state # None
          /\ (self._state = None /\ outcome' \notin Returns) => self'._state = None]_vars

\* A refresh that showed a time, then a refresh that raised: the time stays.
C4_Witness ==
    /\ outcome = "ParserError"
    /\ self._state = <<"09:07">>

-----------------------------------------------------------------------------
(* C5 *)

\* C5: for every fetch result listing at least one service, all with readable
\* times, async_update returns and the display state is then an HH:MM time taken
\* from the first service.
C5_ListingYieldsHHMM ==
    [][\A fetch \in ListingFetches :
          (AsyncUpdate(fetch) /\ Readable(Primary(fetch))) =>
              /\ outcome' = "updated"
              /\ self'._state # None
              /\ self'._state[1] \in HHMM
              /\ self'._state \in {Shown(text) : text \in ServiceTimes(Primary(fetch))}]_vars

-----------------------------------------------------------------------------
(* C6 *)

\* C6: a refresh whose primary service has readable times shows the scheduled
\* time when the estimate is "On time" or absent, and the estimate otherwise.
C6_ScheduledWhenOnTimeOrAbsent ==
    [][\A fetch \in ListingFetches :
          (AsyncUpdate(fetch) /\ Readable(Primary(fetch))) =>
              self'._state =
                  IF "etd" \notin DOMAIN Primary(fetch) \/ Primary(fetch)["etd"] = "On time"
                  THEN Shown(Primary(fetch)["std"])
                  ELSE Shown(Primary(fetch)["etd"])]_vars

-----------------------------------------------------------------------------
(* C7 *)

\* C7: station_name and destination_name are the raw codes at construction; a
\* refresh that succeeds sets them to the names it fetched, and a refresh that
\* fails in any way leaves them as they were.
C7_NamesFollowSuccessfulRefresh ==
    /\ [](outcome = "constructed" =>
            self.station_name = self.station /\ self.destination_name = self.destination)
    /\ [][\A fetch \in Fetches :
             AsyncUpdate(fetch) =>
                 IF outcome' = "updated"
                 THEN /\ self'.station_name = fetch.result["locationName"]
                      /\ self'.destination_name = fetch.result["filterLocationName"]
                 ELSE /\ self'.station_name = self.station_name
                      /\ self'.destination_name = self.destination_name]_vars

-----------------------------------------------------------------------------
(* C8 *)

\* The location names of a service's first subsequent-calling-points group.
FirstGroupNames(service) ==
    LET points == service["subsequentCallingPoints"][1]["callingPoint"]
    IN  [i \in 1 .. Len(points) |-> Get(points[i], "locationName", "")]

\* C8: read after a successful refresh, extra_state_attributes returns the full
\* mapping, with calling_points the location names of the primary service's first
\* subsequent-calling-points group, or the empty list when the service has no
\* such field.
C8_CallingPoints ==
    (outcome = "updated" /\ attributes.status # "unread") =>
        /\ attributes.status = "returned"
        /\ attributes.value["calling_points"] =
               IF "subsequentCallingPoints" \in DOMAIN self.service_data
               THEN FirstGroupNames(self.service_data)
               ELSE <<>>

-----------------------------------------------------------------------------
(* C9 *)

-----------------------------------------------------------------------------
(* C10 *)

\* C10: the snapshot is all-or-nothing: last_data and service_data are both
\* empty, or service_data is the first entry of last_data's service list.
C10_SnapshotWhole ==
    \/ self.last_data = EmptyDict /\ self.service_data = EmptyDict
    \/ /\ DOMAIN self.last_data # {}
       /\ self.service_data = self.last_data["trainServices"][1]

====
